---- MODULE Spec2Model ----
(***************************************************************************)
(* Model of app.py, the diabetic daily support agent: the rule engine      *)
(* (detect_pattern, confidence_score, daily_focus_signals), the narrative  *)
(* generator with its fallback, the JSON history store, the submission     *)
(* pipeline diabetes_agent and the login / submit / logout session shell.  *)
(*                                                                         *)
(* Strings of the program are sequences of chunks, a chunk being a TLA+    *)
(* string: the name " Ann" is <<" ", "A", "n", "n">>, the enum value low   *)
(* is <<"low">>.  The chunk " " is the only whitespace.                    *)
(***************************************************************************)
EXTENDS Integers, Sequences, FiniteSets, TLC

(***************************************************************************)
(* Bounds of the model.                                                    *)
(***************************************************************************)
\* submissions started in one behaviour of the system
MaxSubmits == 3
\* entries in front of the 3-entry window of a history given to the rule engine
MaxOlder == 1
\* entries of a history that is saved and loaded back
MaxStored == 2

----------------------------------------------------------------------------
(***************************************************************************)
(* Strings: str.strip() and str.lower().                                   *)
(***************************************************************************)
IsSpace(c) == c = " "

RECURSIVE lstrip(_)
lstrip(s) == IF s # <<>> /\ IsSpace(Head(s)) THEN lstrip(Tail(s)) ELSE s

RECURSIVE rstrip(_)
rstrip(s) ==
    IF s # <<>> /\ IsSpace(s[Len(s)]) THEN rstrip(SubSeq(s, 1, Len(s) - 1)) ELSE s

strip(s) == rstrip(lstrip(s))

LowerChar(c) == IF c = "A" THEN "a" ELSE IF c = "B" THEN "b" ELSE c

lower(s) == [i \in 1..Len(s) |-> LowerChar(s[i])]

----------------------------------------------------------------------------
(***************************************************************************)
(* Entries.  create_entry builds the dict whose keys, in insertion order,  *)
(* are EntryKeys.                                                          *)
(***************************************************************************)
EntryKeys ==
    <<"user", "age", "date", "fasting", "post_meal", "sleep", "activity", "mood",
      "medication">>

\* the keys whose values are Python ints (number_input / slider with int bounds)
NumKeys == {"age", "fasting", "post_meal", "sleep"}

create_entry(username, age, date, fasting, post_meal, sleep, activity, mood, medication) ==
    [user |-> username, age |-> age, date |-> date, fasting |-> fasting,
     post_meal |-> post_meal, sleep |-> sleep, activity |-> activity, mood |-> mood,
     medication |-> medication]

----------------------------------------------------------------------------
(***************************************************************************)
(* JSON.  A file's content is a sequence of tokens.  json.dump writes a    *)
(* list of dicts as "[" , then per dict "{", key and value tokens in       *)
(* insertion order, "}", and a final "]"; an int becomes a num token     *)
(* holding its decimal digits, a str a str token.  json.load parses the    *)
(* tokens back, or fails.                                                  *)
(***************************************************************************)
\* the decimal digits of n >= 0, most significant first
RECURSIVE ToDigits(_)
ToDigits(n) == IF n < 10 THEN <<n>> ELSE Append(ToDigits(n \div 10), n % 10)

RECURSIVE FromDigits(_)
FromDigits(ds) ==
    IF ds = <<>> THEN 0 ELSE 10 * FromDigits(SubSeq(ds, 1, Len(ds) - 1)) + ds[Len(ds)]

DumpValue(k, v) ==
    IF k \in NumKeys THEN [t |-> "num", n |-> ToDigits(v)] ELSE [t |-> "str", s |-> v]

RECURSIVE DumpPairs(_, _)
DumpPairs(d, i) ==
    IF i > Len(EntryKeys) THEN <<>>
    ELSE <<[t |-> "key", k |-> EntryKeys[i]], DumpValue(EntryKeys[i], d[EntryKeys[i]])>>
         \o DumpPairs(d, i + 1)

DumpDict(d) == <<[t |-> "{"]>> \o DumpPairs(d, 1) \o <<[t |-> "}"]>>

RECURSIVE DumpItems(_)
DumpItems(data) == IF data = <<>> THEN <<>> ELSE DumpDict(Head(data)) \o DumpItems(Tail(data))

\* the slip of dumping the new entry for the whole list
json_dump_last(data) ==
    <<[t |-> "["]>> \o (IF data = <<>> THEN <<>> ELSE DumpDict(data[Len(data)]))
    \o <<[t |-> "]"]>>

json_dump(data) == <<[t |-> "["]>> \o DumpItems(data) \o <<[t |-> "]"]>>

ParseFail == [ok |-> FALSE, val |-> <<>>, next |-> 0]

LoadValue(tok) == IF tok.t = "num" THEN FromDigits(tok.n) ELSE tok.s

\* the members of a dict from position i on, up to and including its "}"
RECURSIVE ParseDict(_, _, _)
ParseDict(toks, i, d) ==
    IF i > Len(toks) THEN ParseFail
    ELSE IF toks[i].t = "}" THEN [ok |-> TRUE, val |-> d, next |-> i + 1]
    ELSE IF toks[i].t = "key" /\ i + 1 <= Len(toks) /\ toks[i + 1].t \in {"num", "str"}
         THEN ParseDict(toks, i + 2, (toks[i].k :> LoadValue(toks[i + 1])) @@ d)
    ELSE ParseFail

\* the items of a list from position i on; "]" must be the last token
RECURSIVE ParseItems(_, _, _)
ParseItems(toks, i, acc) ==
    IF i > Len(toks) THEN ParseFail
    ELSE IF toks[i].t = "]"
         THEN IF i = Len(toks) THEN [ok |-> TRUE, val |-> acc, next |-> i + 1] ELSE ParseFail
    ELSE IF toks[i].t = "{"
         THEN LET r == ParseDict(toks, i + 1, <<>>)
              IN  IF r.ok THEN ParseItems(toks, r.next, Append(acc, r.val)) ELSE ParseFail
    ELSE ParseFail

json_load(toks) ==
    IF toks = <<>> \/ toks[1].t # "[" THEN ParseFail ELSE ParseItems(toks, 2, <<>>)

----------------------------------------------------------------------------
(***************************************************************************)
(* Rule engine.                                                            *)
(***************************************************************************)
RECURSIVE SumOf(_, _)
SumOf(data, k) == IF data = <<>> THEN 0 ELSE Head(data)[k] + SumOf(Tail(data), k)

\* statistics.mean of ints is the exact quotient: kept as numerator and
\* denominator, and compared with an integer threshold c as num ? c * den
mean(data, k) == [num |-> SumOf(data, k), den |-> Len(data)]

MeanGT(m, c) == m.num > c * m.den
MeanLT(m, c) == m.num < c * m.den
MeanGE(m, c) == m.num >= c * m.den

\* the slip history[:3] for history[-3:]
RecentFirst(history) == SubSeq(history, 1, 3)

Recent(history) == SubSeq(history, Len(history) - 2, Len(history))

\* the slip <= for <, with the window of the entries there are
detect_pattern_le3(history) ==
    IF Len(history) <= 3 THEN "insufficient data"
    ELSE LET recent == Recent(history)
             avg_f == mean(recent, "fasting")
             avg_p == mean(recent, "post_meal")
             avg_s == mean(recent, "sleep")
         IN  IF MeanGT(avg_f, 180) \/ MeanGT(avg_p, 250) THEN "very high readings"
             ELSE IF MeanLT(avg_f, 70) THEN "very low readings"
             ELSE IF MeanLT(avg_f, 120) /\ MeanGE(avg_s, 7) THEN "stable routine"
             ELSE "mixed pattern"

detect_pattern(history) ==
    IF Len(history) < 3 THEN "insufficient data"
    ELSE LET recent == Recent(history)
             avg_f == mean(recent, "fasting")
             avg_p == mean(recent, "post_meal")
             avg_s == mean(recent, "sleep")
         IN  IF MeanGT(avg_f, 180) \/ MeanGT(avg_p, 250) THEN "very high readings"
             ELSE IF MeanLT(avg_f, 70) THEN "very low readings"
             ELSE IF MeanLT(avg_f, 120) /\ MeanGE(avg_s, 7) THEN "stable routine"
             ELSE "mixed pattern"

previous_pattern(history) ==
    IF Len(history) < 4 THEN "None"
    ELSE detect_pattern(SubSeq(history, 1, Len(history) - 1))

Max(a, b) == IF a >= b THEN a ELSE b

\* the slip sleep <= 6 for sleep < 6
confidence_score_le6(entry) ==
    LET s0 == 100
        s1 == IF entry.fasting > 160 \/ entry.fasting < 70 THEN s0 - 30 ELSE s0
        s2 == IF entry.sleep <= 6 THEN s1 - 15 ELSE s1
        s3 == IF entry.activity = <<"low">> THEN s2 - 15 ELSE s2
        s4 == IF entry.medication = <<"no">> THEN s3 - 20 ELSE s3
    IN  Max(s4, 0)

confidence_score(entry) ==
    LET s0 == 100
        s1 == IF entry.fasting > 160 \/ entry.fasting < 70 THEN s0 - 30 ELSE s0
        s2 == IF entry.sleep < 6 THEN s1 - 15 ELSE s1
        s3 == IF entry.activity = <<"low">> THEN s2 - 15 ELSE s2
        s4 == IF entry.medication = <<"no">> THEN s3 - 20 ELSE s3
    IN  Max(s4, 0)

daily_focus_signals(entry) ==
    (IF entry.sleep < 6 THEN <<"Low sleep">> ELSE <<>>)
    \o (IF entry.activity = <<"low">> THEN <<"Low physical activity">> ELSE <<>>)
    \o (IF entry.medication = <<"no">> THEN <<"Missed medication">> ELSE <<>>)
    \o (IF entry.fasting > 180 \/ entry.fasting < 70 THEN <<"Critical sugar level">> ELSE <<>>)
    \o (IF entry.sleep >= 7 /\ entry.activity # <<"low">> THEN <<"Good routine">> ELSE <<>>)

----------------------------------------------------------------------------
(***************************************************************************)
(* Narrative generator.  The collaborator's outcome for one call is resp:  *)
(* [kind |-> "raise"] when generate_content or response.text raises (a     *)
(* network error, a timeout, a blocked or candidate-less response), and    *)
(* [kind |-> "text", text |-> s] when response.text is the string s.       *)
(* The result is [raised, val]; except Exception leaves nothing to escape. *)
(***************************************************************************)
Returns(s) == [raised |-> FALSE, val |-> s]

ai_focus_generator(username, age, signals, today, resp) ==
    IF signals = <<>>
    THEN Returns(<<"Great job ">> \o username \o <<"! Your routine looks balanced.">>)
    ELSE IF resp.kind = "text" THEN Returns(strip(resp.text))
    ELSE IF today
         THEN Returns(username
                      \o <<", today showed some imbalance. Take it easy and observe patterns.">>)
         ELSE Returns(username \o <<", tomorrow try improving sleep and light activity.">>)

----------------------------------------------------------------------------
(***************************************************************************)
(* Storage.  The file system maps a path to [exists, data], data being the *)
(* file's tokens.  open(path, "w") creates or truncates the file; the      *)
(* tokens reach it when json.dump's output is flushed at the end of the    *)
(* with block.  io is the outcome of the environment's read: "ok", or      *)
(* "error" when open or read raises although the file is there.            *)
(***************************************************************************)
\* the single shared file of the early variants
user_file_shared(username) == <<"data/", "history.json">>

user_file(username) == <<"data/">> \o username \o <<"_history.json">>

load_history(fs, username, io) ==
    LET f == fs[user_file(username)]
    IN  IF io # "ok" \/ ~f.exists THEN <<>>
        ELSE LET r == json_load(f.data) IN IF r.ok THEN r.val ELSE <<>>

save_open(fs, username) ==
    [fs EXCEPT ![user_file(username)] = [exists |-> TRUE, data |-> <<>>]]

\* the slip of opening the file with "a": the dump lands behind the old content
save_dump_append(fs, username, data) ==
    [fs EXCEPT ![user_file(username)] = [exists |-> TRUE, data |-> @.data \o json_dump(data)]]

save_dump(fs, username, data) ==
    [fs EXCEPT ![user_file(username)] = [exists |-> TRUE, data |-> json_dump(data)]]

----------------------------------------------------------------------------
(***************************************************************************)
(* Inputs of the system.                                                   *)
(***************************************************************************)
Sessions == {"s1", "s2"}

\* what is typed into "Enter your name"
RawNames == {<<>>, <<" ">>, <<" ", "A">>, <<"a">>, <<"B", " ">>}

UserNames == {lower(strip(r)) : r \in RawNames} \ {<<>>}

Paths == {user_file(u) : u \in UserNames}

\* the form's widgets, within their ranges: a calm day and a bad day
Forms ==
    {[age |-> 40, date |-> <<"2024-01-01">>, fasting |-> 110, post_meal |-> 160,
      sleep |-> 6, activity |-> <<"medium">>, mood |-> <<"good">>, medication |-> <<"yes">>],
     [age |-> 40, date |-> <<"2024-01-02">>, fasting |-> 200, post_meal |-> 300,
      sleep |-> 5, activity |-> <<"low">>, mood |-> <<"low">>, medication |-> <<"no">>]}

\* what the text-generation collaborator does on the two calls of one submission:
\* it is out of reach for both, or it answers both
Responses ==
    {[kind |-> "raise", text |-> <<>>], [kind |-> "text", text |-> <<"Rest", " ">>]}

None == <<>>

----------------------------------------------------------------------------
(***************************************************************************)
(* State.                                                                  *)
(*   user, result  st.session_state of each browser session                *)
(*   pc            where the session's diabetes_agent call stands          *)
(*   history, entry, ret   locals of that call                             *)
(*   files         the data directory                                      *)
(* History variables of the verification:                                  *)
(*   nsub     submissions started                                          *)
(*   log      per path, the completed submissions in the order they saved  *)
(*   before   per session, the user's persisted history when the call began*)
(*   raced    the users two of whose calls overlapped                      *)
(*   owner    per session, the user its latest result was computed for     *)
(*   fnCall, fnRet, fnDone   a rule-engine call, its result, whether made  *)
(***************************************************************************)
VARIABLES user, result, pc, history, entry, ret, files,
          nsub, log, before, raced, owner,
          fnCall, fnRet, fnDone

sessVars == <<user, result, owner>>
callVars == <<pc, history, entry, ret, before>>
histVars == <<nsub, log, raced>>
fnVars == <<fnCall, fnRet, fnDone>>
vars == <<sessVars, callVars, files, histVars, fnVars>>

InFlight(s) == pc[s] # "idle"

\* the sessions other than s that are inside diabetes_agent for username
Others(s, username) == {t \in Sessions \ {s} : InFlight(t) /\ user[t] = username}

InitSystem ==
    /\ user = [s \in Sessions |-> None]
    /\ result = [s \in Sessions |-> None]
    /\ owner = [s \in Sessions |-> None]
    /\ pc = [s \in Sessions |-> "idle"]
    /\ history = [s \in Sessions |-> <<>>]
    /\ entry = [s \in Sessions |-> <<>>]
    /\ ret = [s \in Sessions |-> <<>>]
    /\ before = [s \in Sessions |-> <<>>]
    /\ files = [p \in Paths |-> [exists |-> FALSE, data |-> <<>>]]
    /\ nsub = 0
    /\ log = [p \in Paths |-> <<>>]
    /\ raced = {}

InitFnIdle ==
    /\ fnCall = [fn |-> "none"]
    /\ fnRet = <<>>
    /\ fnDone = FALSE

Init == InitSystem /\ InitFnIdle

----------------------------------------------------------------------------
(***************************************************************************)
(* Session shell.                                                          *)
(***************************************************************************)
\* the Login button, pressed with raw in the text input
Login(s, raw) ==
    /\ user[s] = None
    /\ IF strip(raw) # <<>>
       THEN user' = [user EXCEPT ![s] = lower(strip(raw))]
       ELSE UNCHANGED user   \* st.error("Please enter a valid name.")
    /\ UNCHANGED <<result, owner, callVars, files, histVars, fnVars>>

\* the slip of clearing the user alone
LogoutKeepResult(s) ==
    /\ user[s] # None
    /\ ~InFlight(s)
    /\ user' = [user EXCEPT ![s] = None]
    /\ UNCHANGED <<result, owner, callVars, files, histVars, fnVars>>

\* the Logout button, drawn only below the main app
Logout(s) ==
    /\ user[s] # None
    /\ ~InFlight(s)
    /\ user' = [user EXCEPT ![s] = None]
    /\ result' = [result EXCEPT ![s] = None]
    /\ UNCHANGED <<owner, callVars, files, histVars, fnVars>>

(***************************************************************************)
(* diabetes_agent, in the three steps other sessions can see: the load     *)
(* (with the append and the computation, which touch locals only), the     *)
(* open that truncates the file, and the dump with the return.             *)
(***************************************************************************)
\* loaded is what load_history(username) returned
AgentLoad(s, loaded, form, r1, r2) ==
    LET username == user[s]
        e == create_entry(username, form.age, form.date, form.fasting, form.post_meal,
                          form.sleep, form.activity, form.mood, form.medication)
        h == Append(loaded, e)
        current == detect_pattern(h)
        previous == previous_pattern(h)
        confidence == confidence_score(e)
        signals == daily_focus_signals(e)
        today_focus == ai_focus_generator(username, e.age, signals, TRUE, r1)
        tomorrow_focus == ai_focus_generator(username, e.age, signals, FALSE, r2)
        others == Others(s, username)
    IN  /\ username # None
        /\ ~InFlight(s)
        /\ nsub < MaxSubmits
        /\ nsub' = nsub + 1
        /\ IF today_focus.raised \/ tomorrow_focus.raised
           THEN UNCHANGED <<pc, history, entry, ret>>
           ELSE /\ pc' = [pc EXCEPT ![s] = "computed"]
                /\ history' = [history EXCEPT ![s] = h]
                /\ entry' = [entry EXCEPT ![s] = e]
                /\ ret' = [ret EXCEPT ![s] =
                               <<current, confidence, today_focus.val, tomorrow_focus.val>>]
        /\ before' = [before EXCEPT ![s] = load_history(files, username, "ok")]
        /\ raced' = IF others = {} THEN raced ELSE raced \cup {username}
        /\ UNCHANGED <<sessVars, files, log, fnVars>>

AgentSaveOpen(s) ==
    /\ pc[s] = "computed"
    /\ files' = save_open(files, user[s])
    /\ pc' = [pc EXCEPT ![s] = "opened"]
    /\ UNCHANGED <<sessVars, history, entry, ret, before, histVars, fnVars>>

AgentSaveDump(s) ==
    /\ pc[s] = "opened"
    /\ files' = save_dump(files, user[s], history[s])
    /\ result' = [result EXCEPT ![s] = ret[s]]
    /\ owner' = [owner EXCEPT ![s] = user[s]]
    /\ pc' = [pc EXCEPT ![s] = "idle"]
    /\ log' = [log EXCEPT ![user_file(user[s])] =
                   Append(@, [entry |-> entry[s], label |-> ret[s][1]])]
    \* the call's locals go out of scope
    /\ history' = [history EXCEPT ![s] = <<>>]
    /\ entry' = [entry EXCEPT ![s] = <<>>]
    /\ ret' = [ret EXCEPT ![s] = <<>>]
    /\ before' = [before EXCEPT ![s] = <<>>]
    /\ UNCHANGED <<user, nsub, raced, fnVars>>

\* the Submit Daily Log button, the environment's reads succeeding
Submit(s) ==
    /\ user[s] # None
    /\ LET loaded == load_history(files, user[s], "ok")
       IN  \E form \in Forms, r \in Responses : AgentLoad(s, loaded, form, r, r)

\* the same with the read raising, which load_history's bare except swallows
SubmitReadError(s) ==
    /\ user[s] # None
    /\ LET loaded == load_history(files, user[s], "error")
       IN  \E form \in Forms, r \in Responses : AgentLoad(s, loaded, form, r, r)

Next ==
    \E s \in Sessions :
        \/ \E raw \in RawNames : Login(s, raw)
        \/ Logout(s)
        \/ Submit(s)
        \/ AgentSaveOpen(s)
        \/ AgentSaveDump(s)

Spec == Init /\ [][Next]_vars

NextFault == Next \/ \E s \in Sessions : SubmitReadError(s)

SpecFault == Init /\ [][NextFault]_vars

----------------------------------------------------------------------------
(***************************************************************************)
(* The functions on their own: one call, with its arguments fnCall drawn   *)
(* in the initial state, and its result fnRet.                             *)
(***************************************************************************)
RuleEntry(fasting, post_meal, sleep, activity, medication) ==
    create_entry(<<"a">>, 40, <<"2024-01-01">>, fasting, post_meal, sleep, activity,
                 <<"good">>, medication)

\* entries of the 3-entry window: values on and around the thresholds of the means
WindowEntries ==
    {RuleEntry(f, p, sl, <<"medium">>, <<"yes">>) :
        f \in {60, 70, 120, 180, 200}, p \in {250, 300}, sl \in {6, 7}}

\* entries older than the window: an extreme low day and an extreme high day
OlderEntries ==
    {RuleEntry(60, 80, 10, <<"medium">>, <<"yes">>),
     RuleEntry(300, 350, 0, <<"medium">>, <<"yes">>)}

SeqsUpTo(S, n) == UNION {[1..k -> S] : k \in 0..n}

RuleHistories ==
    SeqsUpTo(WindowEntries, 2)
    \cup {o \o w : o \in SeqsUpTo(OlderEntries, MaxOlder), w \in [1..3 -> WindowEntries]}

\* entries given to confidence_score and daily_focus_signals
ScoreEntries ==
    {RuleEntry(f, 160, sl, a, m) :
        f \in {60, 69, 70, 110, 160, 161, 180, 181, 300}, sl \in {0, 5, 6, 7, 10},
        a \in {<<"low">>, <<"medium">>, <<"high">>}, m \in {<<"yes">>, <<"no">>}}

SignalLists ==
    {<<>>, <<"Good routine">>, <<"Low sleep">>,
     <<"Low sleep", "Low physical activity", "Missed medication", "Critical sugar level">>}

FnResponses ==
    {[kind |-> "raise", text |-> <<>>], [kind |-> "text", text |-> <<>>],
     [kind |-> "text", text |-> <<" ">>], [kind |-> "text", text |-> <<" ", " ">>],
     [kind |-> "text", text |-> <<"Rest">>],
     [kind |-> "text", text |-> <<" ", "Rest", " ", "well", " ">>]}

StoredEntries ==
    {create_entry(<<"a">>, f.age, f.date, f.fasting, f.post_meal, f.sleep, f.activity,
                  f.mood, f.medication) : f \in Forms}

StoredHistories == SeqsUpTo(StoredEntries, MaxStored)

\* a file that json.load rejects: empty, cut short, or followed by more data
Unreadable ==
    {<<>>, <<[t |-> "["]>>, <<[t |-> "["], [t |-> "{"]>>,
     <<[t |-> "["], [t |-> "]"], [t |-> "]"]>>,
     <<[t |-> "{"], [t |-> "}"]>>}

InitFn ==
    /\ InitSystem
    /\ fnRet = <<>>
    /\ fnDone = FALSE
    /\ \/ \E h \in RuleHistories : fnCall = [fn |-> "detect_pattern", history |-> h]
       \/ \E e \in ScoreEntries : fnCall = [fn |-> "rules", entry |-> e]
       \/ \E u \in UserNames, sg \in SignalLists, today \in BOOLEAN, r \in FnResponses :
             fnCall = [fn |-> "ai_focus_generator", username |-> u, signals |-> sg,
                       today |-> today, resp |-> r]
       \/ \E u \in UserNames, h \in StoredHistories :
             fnCall = [fn |-> "save_load", username |-> u, history |-> h]
       \/ \E u \in UserNames, h \in StoredHistories, bad \in Unreadable,
             kind \in {"missing", "malformed", "ioerror"} :
             fnCall = [fn |-> "load_history", username |-> u, kind |-> kind,
                       good |-> h, bad |-> bad]

sysVars == <<sessVars, callVars, histVars>>

ApplyDetect ==
    /\ ~fnDone /\ fnCall.fn = "detect_pattern"
    /\ fnRet' = detect_pattern(fnCall.history)
    /\ fnDone' = TRUE
    /\ UNCHANGED <<sysVars, files, fnCall>>

\* lines 182-183 of diabetes_agent: both rule sets on the same entry
ApplyRules ==
    /\ ~fnDone /\ fnCall.fn = "rules"
    /\ fnRet' = [confidence |-> confidence_score(fnCall.entry),
                 signals |-> daily_focus_signals(fnCall.entry)]
    /\ fnDone' = TRUE
    /\ UNCHANGED <<sysVars, files, fnCall>>

ApplyFocus ==
    /\ ~fnDone /\ fnCall.fn = "ai_focus_generator"
    /\ fnRet' = ai_focus_generator(fnCall.username, 40, fnCall.signals, fnCall.today,
                                   fnCall.resp)
    /\ fnDone' = TRUE
    /\ UNCHANGED <<sysVars, files, fnCall>>

\* save_history(username, history) and then load_history(username)
ApplySaveLoad ==
    /\ ~fnDone /\ fnCall.fn = "save_load"
    /\ files' = save_dump(save_open(files, fnCall.username), fnCall.username,
                          fnCall.history)
    /\ fnRet' = load_history(files', fnCall.username, "ok")
    /\ fnDone' = TRUE
    /\ UNCHANGED <<sysVars, fnCall>>

\* load_history(username) with the file missing, malformed, or failing to be read
ApplyLoad ==
    /\ ~fnDone /\ fnCall.fn = "load_history"
    /\ LET p == user_file(fnCall.username)
           fs == IF fnCall.kind = "missing" THEN files
                 ELSE IF fnCall.kind = "malformed"
                      THEN [files EXCEPT ![p] = [exists |-> TRUE, data |-> fnCall.bad]]
                 ELSE [files EXCEPT ![p] =
                           [exists |-> TRUE, data |-> json_dump(fnCall.good)]]
       IN  /\ files' = fs
           /\ fnRet' = load_history(fs, fnCall.username,
                                    IF fnCall.kind = "ioerror" THEN "error" ELSE "ok")
    /\ fnDone' = TRUE
    /\ UNCHANGED <<sysVars, fnCall>>

NextFn == ApplyDetect \/ ApplyRules \/ ApplyFocus \/ ApplySaveLoad \/ ApplyLoad

SpecFn == InitFn /\ [][NextFn]_vars

----------------------------------------------------------------------------
(***************************************************************************)
(* Properties.                                                             *)
(***************************************************************************)
Called(fn) == fnDone /\ fnCall.fn = fn

\* the user's persisted history: what a read of the file that succeeds gives
Persisted(fs, username) == load_history(fs, username, "ok")

Entries(l) == [i \in 1..Len(l) |-> l[i].entry]

\* the sum of field k over the last three entries of h
Last3(h, k) == h[Len(h) - 2][k] + h[Len(h) - 1][k] + h[Len(h)][k]

Labels == {"very high readings", "very low readings", "stable routine", "mixed pattern"}

\* the label the rule table gives: a mean m of three values exceeds c iff their sum exceeds 3c
TableLabel(h) ==
    IF Last3(h, "fasting") > 3 * 180 \/ Last3(h, "post_meal") > 3 * 250
    THEN "very high readings"
    ELSE IF Last3(h, "fasting") < 3 * 70 THEN "very low readings"
    ELSE IF Last3(h, "fasting") < 3 * 120 /\ Last3(h, "sleep") >= 3 * 7
         THEN "stable routine"
    ELSE "mixed pattern"

\* C1: for a history of at least 3 entries detect_pattern returns one label of the
\* closed set, the first match of the rule table over the means of the last 3
\* entries, and the same label as for any history with the same last 3 entries.
C1_PatternOfLastThree ==
    (Called("detect_pattern") /\ Len(fnCall.history) >= 3) =>
        LET h == fnCall.history
            w == SubSeq(h, Len(h) - 2, Len(h))
        IN  /\ fnRet \in Labels
            /\ fnRet = TableLabel(h)
            /\ \A o \in SeqsUpTo(OlderEntries, 1) : detect_pattern(o \o w) = fnRet

C1_Witness ==
    /\ Called("detect_pattern")
    /\ Len(fnCall.history) = 4
    /\ fnCall.history[1].fasting = 300
    /\ fnRet = "stable routine"

\* C2: detect_pattern returns "insufficient data" for every history of length 0, 1
\* or 2 and never for a longer one; so the first two submissions of a user report
\* "insufficient data", and when the user's submissions run one after the other
\* the third is the first to report a real label.
C2_InsufficientData ==
    /\ \A h \in SeqsUpTo(StoredEntries, 2) : detect_pattern(h) = "insufficient data"
    /\ \A s \in Sessions :
          InFlight(s) => (ret[s][1] = "insufficient data" <=> Len(history[s]) < 3)
    /\ \A u \in UserNames :
          LET l == log[user_file(u)]
          IN  \A i \in 1..Len(l) :
                 /\ i < 3 => l[i].label = "insufficient data"
                 /\ (i >= 3 /\ u \notin raced) => l[i].label \in Labels

C2_Witness ==
    \E u \in UserNames :
        LET l == log[user_file(u)]
        IN  /\ u \notin raced
            /\ Len(l) = 3
            /\ l[2].label = "insufficient data"
            /\ l[3].label \in Labels

Ind(b) == IF b THEN 1 ELSE 0

\* C3: confidence_score is an integer in 0..100, equal to max(0, 100 - 30 [fasting
\* < 70 or > 160] - 15 [sleep < 6] - 15 [activity low] - 20 [medication no]): 100
\* when no condition applies and 20 when all four do.
C3_ConfidenceScore ==
    Called("rules") =>
        LET e == fnCall.entry
            fastingOut == e.fasting < 70 \/ e.fasting > 160
            lowSleep == e.sleep < 6
            lowActivity == e.activity = <<"low">>
            noMedication == e.medication = <<"no">>
            expected == 100 - 30 * Ind(fastingOut) - 15 * Ind(lowSleep)
                            - 15 * Ind(lowActivity) - 20 * Ind(noMedication)
        IN  /\ fnRet.confidence \in 0..100
            /\ fnRet.confidence = (IF expected < 0 THEN 0 ELSE expected)
            /\ (~fastingOut /\ ~lowSleep /\ ~lowActivity /\ ~noMedication)
                  => fnRet.confidence = 100
            /\ (fastingOut /\ lowSleep /\ lowActivity /\ noMedication)
                  => fnRet.confidence = 20

C3_Witness ==
    /\ Called("rules")
    /\ fnCall.entry.fasting = 300 /\ fnCall.entry.sleep = 5
    /\ fnCall.entry.activity = <<"low">> /\ fnCall.entry.medication = <<"no">>
    /\ fnRet.confidence = 20

Fallback(username, today) ==
    IF today
    THEN username \o <<", today showed some imbalance. Take it easy and observe patterns.">>
    ELSE username \o <<", tomorrow try improving sleep and light activity.">>

\* the collaborator did not succeed: it raised, or its text is empty or whitespace
NonSuccess(resp) == resp.kind = "raise" \/ \A i \in 1..Len(resp.text) : resp.text[i] = " "

\* C4: ai_focus_generator never raises and never returns an empty text, whatever
\* the collaborator does; every non-success of the collaborator, an empty or
\* whitespace-only response included, gives the fixed fallback string.
C4_NeverEmpty ==
    Called("ai_focus_generator") =>
        /\ ~fnRet.raised
        /\ fnRet.val # <<>>
        /\ (fnCall.signals # <<>> /\ NonSuccess(fnCall.resp))
              => fnRet.val = Fallback(fnCall.username, fnCall.today)

\* C5: save_history followed by load_history for the same user returns the same
\* ordered sequence of entries, for every history of N >= 0 entries; load_history
\* returns the empty history when the file is missing or unreadable.
C5_RoundTrip ==
    /\ Called("save_load") => fnRet = fnCall.history
    /\ Called("load_history") => fnRet = <<>>

C5_Witness ==
    /\ Called("save_load")
    /\ Len(fnCall.history) = 2
    /\ fnCall.history[1] # fnCall.history[2]
    /\ fnRet = fnCall.history

\* C6: in a sequential execution of submissions of one user, executions in which a
\* load hits a read failure included, the persisted history after a submission is
\* the persisted history before it with the new entry appended at the end.
C6_AppendOnly ==
    [][\A s \in Sessions :
          (pc[s] = "opened" /\ pc'[s] = "idle" /\ user[s] \notin raced)
             => Persisted(files', user[s]) = Append(before[s], entry[s])]_vars

\* C7: two submissions of one user that overlap can both complete and return while
\* the persisted history holds only the entry of the one that saved last; whenever
\* no save of the user is under way the persisted history ends with the entry
\* saved last, and it holds every entry in saving order when the user's
\* submissions never overlapped.
C7_LastWriteWins ==
    \A u \in UserNames :
        LET l == log[user_file(u)]
            h == Persisted(files, u)
        IN  (\A s \in Sessions : user[s] = u => pc[s] # "opened") =>
                /\ Len(h) <= Len(l)
                /\ l # <<>> => (h # <<>> /\ h[Len(h)] = l[Len(l)].entry)
                /\ u \notin raced => h = Entries(l)

\* both submissions returned, two entries were saved, one is left
C7_LostUpdate ==
    \E u \in UserNames :
        LET l == log[user_file(u)]
        IN  /\ \A s \in Sessions : user[s] = u /\ ~InFlight(s) /\ result[s] # None
            /\ Len(l) = 2
            /\ l[1].entry # l[2].entry
            /\ Persisted(files, u) = <<l[2].entry>>

Advisory == {"Critical sugar level", "Low sleep", "Low physical activity", "Missed medication"}

Has(signals, x) == \E i \in 1..Len(signals) : signals[i] = x

\* C8: each confidence penalty (fasting out of range, sleep < 6, activity low,
\* medication no) is applied exactly when the corresponding advisory signal is
\* returned by daily_focus_signals, so the score is below 100 exactly when an
\* advisory signal is present; "Good routine" is present exactly when sleep >= 7
\* and activity is not low.
C8_SameConditions ==
    Called("rules") =>
        LET e == fnCall.entry
            sg == fnRet.signals
            \* a penalty is applied when the score rises with the condition removed
            penalised(fixed) == confidence_score(fixed) > confidence_score(e)
        IN  /\ penalised([e EXCEPT !.fasting = 110]) <=> Has(sg, "Critical sugar level")
            /\ penalised([e EXCEPT !.sleep = 7]) <=> Has(sg, "Low sleep")
            /\ penalised([e EXCEPT !.activity = <<"high">>]) <=> Has(sg, "Low physical activity")
            /\ penalised([e EXCEPT !.medication = <<"yes">>]) <=> Has(sg, "Missed medication")
            /\ fnRet.confidence < 100 <=> \E x \in Advisory : Has(sg, x)
            /\ Has(sg, "Good routine") <=> (e.sleep >= 7 /\ e.activity # <<"low">>)

\* C9: a session is logged out or logged in under a non-empty, stripped,
\* lower-cased name; a result is stored only while a user is logged in, and it is
\* the result of a submission of that user; a submission runs only while logged in.
C9_Session ==
    \A s \in Sessions :
        /\ user[s] = lower(strip(user[s]))
        /\ user[s] = None => (result[s] = None /\ ~InFlight(s))
        /\ result[s] # None => owner[s] = user[s]

\* a session that showed one user's result, now logged in as another, showing none
C9_Witness ==
    \E s \in Sessions :
        /\ owner[s] # None /\ user[s] # None /\ owner[s] # user[s]
        /\ result[s] = None

====
